---------------------------- MODULE Spec2Model ----------------------------
(***************************************************************************)
(* The archive pipelines of gc3libs/etc: archive-etl.py (the "local"       *)
(* variant: zip/tar members are decoded and aggregated into one file) and  *)
(* unpack-swift.py (the "remote" variant: members are uploaded to a Swift  *)
(* container).  Both are Python 2 programs built on multiprocessing: one   *)
(* indexer process, N worker processes, (local) one writer process and the *)
(* main process that coordinates them through manager queues.              *)
(***************************************************************************)
EXTENDS Integers, Sequences, FiniteSets, TLC

(***************************************************************************)
(* Bounds of the model.                                                    *)
(***************************************************************************)
MaxWorkers == 2      \* -p/--processors, -n/--num-cores range over 1..MaxWorkers
MaxMembers == 2      \* an archive holds at most this many entries
MaxCalls == 3        \* decode is called at most this many times on one Decoder
MaxId == 3           \* the rows of the table have ids up to this
MaxTimeout == 2      \* -t/--time-out ranges over 0..MaxTimeout

(***************************************************************************)
(* Python values, as far as the decoder and the writer look at them.       *)
(* ty is "str" (byte string), "unicode", "int", "list" or "dict"; a dict   *)
(* keeps its (key, value) pairs as two-element lists in items.             *)
(***************************************************************************)
PyStr(s) == [ty |-> "str", s |-> s, items |-> << >>]
PyUni(s) == [ty |-> "unicode", s |-> s, items |-> << >>]
PyInt(s) == [ty |-> "int", s |-> s, items |-> << >>]
PyList(items) == [ty |-> "list", s |-> "", items |-> items]
PyDict(pairs) == [ty |-> "dict", s |-> "", items |-> pairs]

IsText(v) == v.ty \in {"str", "unicode"}

\* The characters of the strings the model iterates over.
Chars(s) ==
  CASE s = "" -> << >>
    [] s = "EOP" -> <<"E", "O", "P">>
    [] s = "ab" -> <<"a", "b">>
    [] OTHER -> <<s>>

\* iter(v): the elements a for loop over v yields; ok is FALSE where Python
\* raises TypeError (an int is not iterable).
PyIter(v) ==
  CASE v.ty = "list" -> [ok |-> TRUE, items |-> v.items]
    [] v.ty = "dict" -> [ok |-> TRUE, items |-> [i \in 1..Len(v.items) |-> v.items[i].items[1]]]
    [] v.ty = "str" -> [ok |-> TRUE, items |-> [i \in 1..Len(Chars(v.s)) |-> PyStr(Chars(v.s)[i])]]
    [] v.ty = "unicode" -> [ok |-> TRUE, items |-> [i \in 1..Len(Chars(v.s)) |-> PyUni(Chars(v.s)[i])]]
    [] OTHER -> [ok |-> FALSE, items |-> << >>]

RECURSIVE JoinStrings(_, _)
\* sep.join(strs) for a sequence of TLA+ strings.
JoinStrings(strs, sep) ==
  IF Len(strs) = 0 THEN ""
  ELSE IF Len(strs) = 1 THEN strs[1]
  ELSE strs[1] \o sep \o JoinStrings(Tail(strs), sep)

RECURSIVE PyRepr(_)
\* repr(v), which str() of a list applies to each element.
PyRepr(v) ==
  CASE v.ty = "str" -> "'" \o v.s \o "'"
    [] v.ty = "unicode" -> "u'" \o v.s \o "'"
    [] v.ty = "int" -> v.s
    [] v.ty = "list" ->
         "[" \o JoinStrings([i \in 1..Len(v.items) |-> PyRepr(v.items[i])], ", ") \o "]"
    [] OTHER ->
         "{" \o JoinStrings([i \in 1..Len(v.items) |->
                  PyRepr(v.items[i].items[1]) \o ": " \o PyRepr(v.items[i].items[2])], ", ") \o "}"

(***************************************************************************)
(* The library calls of the decoder, tabulated on the line texts the model *)
(* uses.  A blob is the sequence data.split('\n') of its lines: a blob     *)
(* that ends in a newline has "" as its last line.                         *)
(***************************************************************************)
\* json.loads(text) of one line: ok is FALSE for ValueError.
JsonLoads(text) ==
  CASE text = "[[\"EOP\"]]" -> [ok |-> TRUE, val |-> PyList(<<PyList(<<PyUni("EOP")>>)>>)]
    [] text = "[{\"x\":1}]" ->
         [ok |-> TRUE, val |-> PyList(<<PyDict(<<PyList(<<PyUni("x"), PyInt("1")>>)>>)>>)]
    [] text = "[[\"a\",\"b\"]]" -> [ok |-> TRUE, val |-> PyList(<<PyList(<<PyUni("a"), PyUni("b")>>)>>)]
    [] text = "[\"ab\"]" -> [ok |-> TRUE, val |-> PyList(<<PyUni("ab")>>)]
    [] text = "[1]" -> [ok |-> TRUE, val |-> PyList(<<PyInt("1")>>)]
    [] text = "[]" -> [ok |-> TRUE, val |-> PyList(<< >>)]
    [] text = "1" -> [ok |-> TRUE, val |-> PyInt("1")]
    [] OTHER -> [ok |-> FALSE, val |-> PyInt("0")]

\* json.loads(data) of a whole blob: a one-line blob (with or without a
\* final newline) parses as its line does; of the blobs of several lines
\* only the array broken over two lines is one JSON document.
JsonLoadsData(lines) ==
  IF Len(lines) = 1 \/ (Len(lines) = 2 /\ lines[2] = "") THEN JsonLoads(lines[1])
  ELSE IF lines = <<"[[\"a\",", "\"b\"]]">>
       THEN [ok |-> TRUE, val |-> PyList(<<PyList(<<PyUni("a"), PyUni("b")>>)>>)]
       ELSE [ok |-> FALSE, val |-> PyInt("0")]

\* csv.Sniffer().sniff(line) of one line: ok is FALSE for csv.Error ("Could
\* not determine delimiter").  With no quote in the line the quote character
\* defaults to '"'; the delimiter is the first of , \t ; space : the line
\* holds and otherwise its greatest character.
Sniff(line) ==
  CASE line \in {"1,2", "3,4", "x,y", "#,c"} -> [ok |-> TRUE, delimiter |-> ",", quotechar |-> "\""]
    [] line \in {"a;b"} -> [ok |-> TRUE, delimiter |-> ";", quotechar |-> "\""]
    [] line \in {"hello world"} -> [ok |-> TRUE, delimiter |-> " ", quotechar |-> "\""]
    [] line \in {"EOP"} -> [ok |-> TRUE, delimiter |-> "P", quotechar |-> "\""]
    [] line \in {"#c"} -> [ok |-> TRUE, delimiter |-> "c", quotechar |-> "\""]
    [] OTHER -> [ok |-> FALSE, delimiter |-> "", quotechar |-> ""]

\* line.startswith("#")
StartsWithHash(line) == line \in {"#c", "#,c"}

\* One row of csv.reader(..., delimiter, quotechar='"'): the fields of line.
\* An empty line gives the empty row.
CsvRow(line, delimiter) ==
  CASE line = "" -> << >>
    [] line = "1,2" /\ delimiter = "," -> <<"1", "2">>
    [] line = "3,4" /\ delimiter = "," -> <<"3", "4">>
    [] line = "x,y" /\ delimiter = "," -> <<"x", "y">>
    [] line = "#,c" /\ delimiter = "," -> <<"#", "c">>
    [] line = "a;b" /\ delimiter = ";" -> <<"a", "b">>
    [] line = "hello world" /\ delimiter = " " -> <<"hello", "world">>
    [] line = "EOP" /\ delimiter = "P" -> <<"EO", "">>
    [] line = "#c" /\ delimiter = "c" -> <<"#", "">>
    [] OTHER -> <<line>>

\* data.splitlines(): the lines without the empty one a final newline leaves.
SplitLines(lines) ==
  IF Len(lines) > 0 /\ lines[Len(lines)] = "" THEN SubSeq(lines, 1, Len(lines) - 1) ELSE lines


(***************************************************************************)
(* class Decoder (archive-etl.py).                                         *)
(***************************************************************************)
SampleLines == 10    \* the sample window of _detect_data_type_

RECURSIVE SniffScan(_, _, _, _, _)
\* The for loop of _detect_data_type_ over lines[1:ins]: the slice is taken
\* once, so it runs over the (1-based) lines i..last whatever becomes of
\* ins.  Gives "csv", "text" or "error" (sniff raised csv.Error).
SniffScan(lines, dialect, i, last, ins) ==
  IF i > last THEN "csv"
  ELSE IF StartsWithHash(lines[i])
       THEN IF ins = Len(lines) THEN "text"
            ELSE SniffScan(lines, dialect, i + 1, last, ins + 1)
  ELSE IF ~Sniff(lines[i]).ok THEN "error"
  ELSE IF Sniff(lines[i]).delimiter # dialect.delimiter
          \/ Sniff(lines[i]).quotechar # dialect.quotechar THEN "text"
  ELSE SniffScan(lines, dialect, i + 1, last, ins)

\* Decoder._detect_data_type_(data): [ok, data_type, dialect]; ok is FALSE
\* when csv.Error leaves the method.
DetectDataType(lines) ==
  LET ins == IF Len(lines) <= SampleLines THEN Len(lines) ELSE SampleLines
      first == Sniff(lines[1])
      none == [ok |-> FALSE, delimiter |-> "", quotechar |-> ""]
  IN  IF JsonLoadsData(lines).ok \/ JsonLoads(lines[1]).ok
      THEN [ok |-> TRUE, data_type |-> "json", dialect |-> none]
      ELSE IF ~first.ok THEN [ok |-> FALSE, data_type |-> "", dialect |-> none]
      ELSE LET scan == SniffScan(lines, first, 2, ins, ins)
           IN  IF scan = "error" THEN [ok |-> FALSE, data_type |-> "", dialect |-> first]
               ELSE [ok |-> TRUE, data_type |-> scan, dialect |-> first]

\* Decoder._decode_csv_(data): one list of byte strings per line.
DecodeCsv(lines, dialect) ==
  LET ls == SplitLines(lines)
  IN  [i \in 1..Len(ls) |->
         LET row == CsvRow(ls[i], dialect.delimiter)
         IN  PyList([j \in 1..Len(row) |-> PyStr(row[j])])]

RECURSIVE DecodeJsonLines(_)
\* The second loop of _decode_json_: every line that parses contributes its
\* elements; ValueError is swallowed, TypeError (a line that parses to a
\* value that cannot be iterated) is not.
DecodeJsonLines(ls) ==
  IF Len(ls) = 0 THEN [ok |-> TRUE, rows |-> << >>]
  ELSE LET j == JsonLoads(ls[1])
           rest == DecodeJsonLines(Tail(ls))
       IN  IF ~j.ok THEN rest
           ELSE IF ~PyIter(j.val).ok THEN [ok |-> FALSE, rows |-> << >>]
           ELSE [ok |-> rest.ok, rows |-> PyIter(j.val).items \o rest.rows]

\* Decoder._decode_json_(data): the elements of the whole blob, when it
\* parses, and then (in either case) the elements of every line.
DecodeJson(lines) ==
  LET whole == JsonLoadsData(lines)
      byLine == DecodeJsonLines(SplitLines(lines))
  IN  IF whole.ok /\ ~PyIter(whole.val).ok THEN [ok |-> FALSE, rows |-> << >>]
      ELSE [ok |-> byLine.ok,
            rows |-> (IF whole.ok THEN PyIter(whole.val).items ELSE << >>) \o byLine.rows]

\* Decoder.__init__: _dialect and _data_type are None.
NoDialect == [ok |-> FALSE, delimiter |-> "", quotechar |-> ""]
NewDecoder == [data_type |-> "None", dialect |-> NoDialect]

\* "if not self._data_type" as it would be if it were always true
NotDetected_Always(self) == TRUE
\* if not self._data_type
NotDetected(self) == self.data_type = "None"

\* What decode returns once the rows are there: r is [ok, rows].
Decoded(after, r) == [ok |-> r.ok, self |-> after, rows |-> r.rows]

\* The body of Decoder.decode: detect says whether detection runs and d is
\* what _detect_data_type_(data) gives when it does.
DecodeDetected(self, lines, detect, d) ==
  LET dialect == IF detect /\ d.dialect.ok THEN d.dialect ELSE self.dialect
      data_type == IF detect /\ d.ok THEN d.data_type ELSE self.data_type
      after == [data_type |-> data_type, dialect |-> dialect]
  IN  IF detect /\ ~d.ok THEN Decoded(after, [ok |-> FALSE, rows |-> << >>])
      ELSE IF data_type = "csv"
           THEN Decoded(after, [ok |-> TRUE, rows |-> DecodeCsv(lines, dialect)])
      ELSE IF data_type = "json" THEN Decoded(after, DecodeJson(lines))
      ELSE Decoded(after, [ok |-> TRUE, rows |-> << >>])

\* Decoder.decode(data) on the instance self: [ok, self, rows], self being
\* the instance afterwards; ok is FALSE when an exception leaves decode.
\* Detection assigns _dialect as soon as the first line is sniffed and
\* _data_type only when it returns.
DecoderDecode(self, lines) ==
  DecodeDetected(self, lines, NotDetected(self), DetectDataType(lines))

\* What the caller of Decoder().decode sees of the result r of decode.
FromNewDecoder(r) ==
  [ok |-> r.ok, data_type |-> IF NotDetected(r.self) THEN "" ELSE r.self.data_type,
   dialect |-> r.self.dialect, rows |-> r.rows]

\* Decoder().decode(data), a new Decoder: [ok, data_type, dialect, rows];
\* ok is FALSE when an exception leaves decode.
Decode(lines) == FromNewDecoder(DecoderDecode(NewDecoder, lines))

\* extract_file(data_file): bz2.decompress gives the plain bytes of a bz2
\* blob and raises IOError (caught) on any other; a new Decoder decodes.
ExtractFile(blob) == Decode(blob.lines)

(***************************************************************************)
(* post_data_to_writer(data, wq, ot): the messages put on the writer       *)
(* queue, in order, and whether the call then raises.                      *)
(***************************************************************************)
\* ';'.join(row): TypeError unless row can be iterated and yields strings.
JoinRow(row) ==
  LET it == PyIter(row)
  IN  IF it.ok /\ \A i \in 1..Len(it.items) : IsText(it.items[i])
      THEN [ok |-> TRUE, m |-> JoinStrings([i \in 1..Len(it.items) |-> it.items[i].s], ";")]
      ELSE [ok |-> FALSE, m |-> ""]

RECURSIVE PostCsv(_)
PostCsv(rows) ==
  IF Len(rows) = 0 THEN [ok |-> TRUE, msgs |-> << >>]
  ELSE LET j == JoinRow(rows[1])
           rest == PostCsv(Tail(rows))
       IN  IF ~j.ok THEN [ok |-> FALSE, msgs |-> << >>]
           ELSE [ok |-> rest.ok, msgs |-> <<j.m>> \o rest.msgs]

\* dict(data): every element must be a sequence of two items, the first of
\* them hashable; a later pair replaces an earlier one with the same key.
ToDict(rows) ==
  LET pairOk(r) == /\ PyIter(r).ok
                   /\ Len(PyIter(r).items) = 2
                   /\ PyIter(r).items[1].ty \notin {"list", "dict"}
      key(i) == PyIter(rows[i]).items[1]
      kept == SelectSeq([i \in 1..Len(rows) |-> i],
                        LAMBDA i : \A k \in (i + 1)..Len(rows) : key(k) # key(i))
  IN  IF \A i \in 1..Len(rows) : pairOk(rows[i])
      THEN [ok |-> TRUE,
            val |-> PyDict([n \in 1..Len(kept) |-> PyList(PyIter(rows[kept[n]]).items)])]
      ELSE [ok |-> FALSE, val |-> PyDict(<< >>)]

RECURSIVE JsonDumps(_)
\* json.dumps(v); the pairs of a dict are written in the order kept.
JsonDumps(v) ==
  CASE IsText(v) -> "\"" \o v.s \o "\""
    [] v.ty = "int" -> v.s
    [] v.ty = "list" ->
         "[" \o JoinStrings([i \in 1..Len(v.items) |-> JsonDumps(v.items[i])], ", ") \o "]"
    [] OTHER ->
         "{" \o JoinStrings([i \in 1..Len(v.items) |->
                  "\"" \o v.items[i].items[1].s \o "\": " \o JsonDumps(v.items[i].items[2])], ", ") \o "}"

PostDataToWriter(rows, ot) ==
  IF ot = "csv" THEN PostCsv(rows)
  ELSE IF ot = "json"
       THEN IF ToDict(rows).ok
            THEN [ok |-> TRUE, msgs |-> <<JsonDumps(ToDict(rows).val)>>]
            ELSE [ok |-> FALSE, msgs |-> << >>]
  ELSE [ok |-> TRUE, msgs |-> <<PyRepr(PyList(rows))>>]

(***************************************************************************)
(* Archives.  A member is [name, type, size, closed, blob]: type is "file", *)
(* "dir" or "link"; a zip directory entry has a name ending in "/"; closed *)
(* is what the handle tarfile.extractfile returns reports; blob is         *)
(* [bz2, lines], the member's bytes.  kind is what is_zipfile/is_tarfile   *)
(* find at the archive path: "zip", "tar" or "bad" for neither.            *)
(***************************************************************************)
Blob(lines) == [bz2 |-> FALSE, lines |-> lines]

MemberCsv == [name |-> "a.csv", type |-> "file", size |-> 7, closed |-> FALSE,
              blob |-> Blob(<<"1,2", "3,4">>)]
MemberEopRow == [name |-> "b.json", type |-> "file", size |-> 9, closed |-> FALSE,
                 blob |-> Blob(<<"[[\"EOP\"]]">>)]
MemberNewline == [name |-> "c.csv", type |-> "file", size |-> 4, closed |-> FALSE,
                  blob |-> Blob(<<"1,2", "">>)]
MemberEopName == [name |-> "EOP", type |-> "file", size |-> 3, closed |-> FALSE,
                  blob |-> Blob(<<"x,y">>)]
MemberDir == [name |-> "d/", type |-> "dir", size |-> 0, closed |-> FALSE,
              blob |-> Blob(<<"">>)]
MemberEmpty == [name |-> "e.csv", type |-> "file", size |-> 0, closed |-> FALSE,
                blob |-> Blob(<<"">>)]

MemberRow == [name |-> "r.csv", type |-> "file", size |-> 3, closed |-> FALSE,
              blob |-> Blob(<<"1,2">>)]

\* a regular entry whose handle, as extractfile returns it, reports closed
MemberClosed == [name |-> "k.csv", type |-> "file", size |-> 3, closed |-> TRUE,
                 blob |-> Blob(<<"1,2">>)]

Catalog == {MemberCsv, MemberEopRow, MemberNewline, MemberEopName, MemberDir, MemberEmpty}
\* One member of each kind the coordination depends on: one that gives a
\* message, one that ends its worker with an exception, two that are not
\* enqueued and one whose zip name is the sentinel's text.
CoreCatalog == {MemberRow, MemberNewline, MemberDir, MemberEmpty, MemberEopName}

SeqsUpTo(S, n) == UNION {[1..k -> S] : k \in 0..n}

ArchivesOver(cat, n) ==
  {[kind |-> k, members |-> ms] : k \in {"zip", "tar"}, ms \in SeqsUpTo(cat, n)}
    \cup {[kind |-> "bad", members |-> << >>]}

\* name.endswith('/')
EndsWithSlash(m) == m.type = "dir"

\* the loop as it would be with no test before fq.put
Enqueued_All(kind, m) == TRUE
\* The filter of queue_archive_files: zip entries by name and file_size, tar
\* entries by isreg() and size.
Enqueued(kind, m) ==
  IF kind = "zip" THEN ~EndsWithSlash(m) /\ m.size > 0
  ELSE m.type = "file" /\ m.size > 0

\* ZipFile.read(name) reads the last entry of that name; TarFile.extractfile
\* reads the entry the TarInfo describes.
ReadMember(arch, item) ==
  IF arch.kind = "zip"
  THEN LET same == {i \in 1..Len(arch.members) : arch.members[i].name = item.name}
       IN  arch.members[CHOOSE i \in same : \A j \in same : j <= i]
  ELSE arch.members[item.id]

(***************************************************************************)
(* Command lines.                                                          *)
(***************************************************************************)
OutputFormats == {"csv", "json", "text"}
NoOutput == "(None)"       \* -o/--output, -p/--prefix not given

ArgsOver(variants, counts, timeouts, formats, compress, outputs, prefixes) ==
  {a \in [variant : variants, processors : counts, time_out : timeouts,
          output_format : formats, no_compression : compress,
          output : outputs, prefix : prefixes] :
     \* archive-etl.py has no --prefix; unpack-swift.py has neither
     \* --output-format, --no-compression nor --output
     IF a.variant = "local" THEN a.prefix = NoOutput
     ELSE a.output_format = "csv" /\ ~a.no_compression /\ a.output = NoOutput}

AllArgs ==
  ArgsOver({"local", "remote"}, 1..MaxWorkers, 0..MaxTimeout, OutputFormats, BOOLEAN,
           {NoOutput, "out"}, {NoOutput, "runs/42/"})

(***************************************************************************)
(* The credential file amaterial.dat.  Texts are sequences of characters;  *)
(* gunpacker.py writes the file, unpack-swift.py reads it.                  *)
(***************************************************************************)
KeyAuth == <<"a", "u", "t", "h">>
KeyProj == <<"p", "r", "o", "j">>
KeyUser == <<"u", "s", "e", "r">>
KeySess == <<"s", "e", "s", "s">>
\* the names gunpackerApplication.__init__ writes
CredKeys == {KeyAuth, KeyProj, KeyUser, KeySess}

\* The values the environment variables take: plain, with an '=' inside,
\* with a blank in front, empty.
CredValues == {<<"x">>, <<"a", "=", "b">>, <<" ", "s">>, << >>}

\* '{name}={0}\n'.format(value)
CredLine(name, value) == name \o <<"=">> \o value \o <<"\n">>

\* The four fp.write calls: the file's content.
WriteCredentials(env) ==
  CredLine(KeyAuth, env[KeyAuth]) \o CredLine(KeyProj, env[KeyProj])
    \o CredLine(KeyUser, env[KeyUser]) \o CredLine(KeySess, env[KeySess])

\* the first position of character c in text, 0 if there is none
IndexOf(text, c) ==
  IF \E i \in 1..Len(text) : text[i] = c
  THEN CHOOSE i \in 1..Len(text) : text[i] = c /\ \A j \in 1..(i - 1) : text[j] # c
  ELSE 0

RECURSIVE FileLinesOf(_)
\* for line in os_file: each line with the newline that ends it.
FileLinesOf(chars) ==
  IF chars = << >> THEN << >>
  ELSE IF IndexOf(chars, "\n") = 0 THEN <<chars>>
  ELSE <<SubSeq(chars, 1, IndexOf(chars, "\n"))>>
         \o FileLinesOf(SubSeq(chars, IndexOf(chars, "\n") + 1, Len(chars)))

\* line.partition("=")[::2]: what is before the first '=' and what is after
\* it; the whole line and the empty string when the line has no '='.
PartitionEq(line) ==
  IF IndexOf(line, "=") = 0 THEN [name |-> line, var |-> << >>]
  ELSE [name |-> SubSeq(line, 1, IndexOf(line, "=") - 1),
        var |-> SubSeq(line, IndexOf(line, "=") + 1, Len(line))]

Whitespace == {" ", "\n", "\t"}
RECURSIVE Strip(_)
\* str.strip()
Strip(text) ==
  IF text = << >> THEN text
  ELSE IF text[1] \in Whitespace THEN Strip(Tail(text))
  ELSE IF text[Len(text)] \in Whitespace THEN Strip(SubSeq(text, 1, Len(text) - 1))
  ELSE text

\* os_vars[name.strip()] = var: the value is kept as partition gave it.
Loaded(var) == var

\* d[name] = var on a dict
DictSet(d, name, var) ==
  [n \in (DOMAIN d) \cup {name} |-> IF n = name THEN var ELSE d[n]]

RECURSIVE LoadCredentialLines(_, _)
\* The loop over the lines of the file, from the dict d on.
LoadCredentialLines(d, lines) ==
  IF lines = << >> THEN d
  ELSE LoadCredentialLines(
         DictSet(d, Strip(PartitionEq(lines[1]).name), Loaded(PartitionEq(lines[1]).var)),
         Tail(lines))

\* a worker that has not opened its connection
NoConnection == [state |-> "none"]
\* swiftclient.client.Connection(authurl=sc['auth'], user=sc['user'],
\* key=sc['sess'], tenant_name=sc['proj']); a missing key is a KeyError.
Connection(sc) ==
  IF CredKeys \subseteq DOMAIN sc
  THEN [state |-> "open", authurl |-> sc[KeyAuth], user |-> sc[KeyUser],
        key |-> sc[KeySess], tenant_name |-> sc[KeyProj]]
  ELSE [state |-> "KeyError"]

(***************************************************************************)
(* persistence/sql.py: the table of the store and the statements run on    *)
(* it.                                                                     *)
(***************************************************************************)
\* The ids an object can come with: persistent_id is whatever it was given.
Ids == -1..MaxId
\* What the data column of a row holds: the pickle of one of two objects.
Pickles == {"a", "b"}

\* The table as _delayed_init leaves it, without rows.  rows[id] is the data
\* column of the rows whose id column is id, one entry for each such row.
\* The primary key on id is there when meta.create_all() made the table; a
\* table that was in the database already has the schema it came with.
NewTable(pk) == [primary_key |-> pk, rows |-> [id \in Ids |-> << >>]]

\* select id from store
IdColumn(table) == {id \in Ids : table.rows[id] # << >>}
\* select ... where id == id_
SelectWhere(table, id) == table.rows[id]
\* insert().values(**fields): a second row under a primary key there is
\* already is an IntegrityError of the database.
Insert(table, id, data) ==
  IF table.primary_key /\ table.rows[id] # << >>
  THEN [raised |-> "IntegrityError", table |-> table]
  ELSE [raised |-> "", table |-> [table EXCEPT !.rows[id] = Append(@, data)]]
\* update().where(id == id_).values(**fields): every row of that id
Update(table, id, data) ==
  [table EXCEPT !.rows[id] = [i \in 1..Len(@) |-> data]]
\* delete().where(id == id_)
Delete(table, id) == [table EXCEPT !.rows[id] = << >>]

\* _save_or_replace as it would be if the select never found a row
FetchedOne_Never(rows) == FALSE
\* r.fetchone() of the select in _save_or_replace: a row, or None
FetchedOne(rows) == rows # << >>

\* _save_or_replace(id_, obj): insert when the select finds no row of the
\* id, update otherwise.
SaveOrReplace(table, id, data) ==
  IF ~FetchedOne(SelectWhere(table, id))
  THEN Insert(table, id, data)
  ELSE [raised |-> "", table |-> Update(table, id, data)]

(***************************************************************************)
(* State.                                                                  *)
(***************************************************************************)
VARIABLES
  args,            \* the parsed command line
  archive,         \* what is (or will be) at archive_path
  archive_exists,  \* os.path.exists(archive_path)
  timeout,         \* the poll loop's counter
  checks,          \* number of os.path.exists calls made so far
  sleeps,          \* number of time.sleep(1) calls made so far
  coord,           \* the main process: [pc, k]
  exit_status,     \* << >> while main runs, <<code>> once it has exited
  manager,         \* the Manager process that holds the queues
  file_queue,      \* work items waiting
  writer_queue,    \* output messages waiting
  indexer,         \* [pc, pos]
  jobs,            \* worker -> [pc, pending, raises]
  writer,          \* the writer process: its pc
  output_file,     \* [exists, written, flushed]
  swift,           \* the put_object calls that succeeded, in order
  fq_put,          \* every item ever put on file_queue, in order
  wq_put,          \* every message ever put on writer_queue, in order
  taken,           \* worker -> the items it took from file_queue, in order
  decoders,        \* worker -> the Decoder instances extract_file made, as they ended
  dec,             \* a Decoder instance on its own: [data_type, dialect]
  dec_calls,       \* the decode calls made on dec, in order
  store,           \* the table "store": its primary key and its rows
  sql_last,        \* the last call on the store: the ids it found in the table,
                   \* whether it called sql_next_id, and its outcome
  os_environ,      \* the front-end's OS_AUTH_URL, OS_PROJECT_NAME, OS_USERNAME, OS_PASSWORD
  amaterial,       \* the file amaterial.dat: [exists, chars]
  os_vars,         \* what unpack-swift.py loaded from it: [loaded, vars]
  conn             \* worker -> the parameters of its Swift connection

vars == <<args, archive, archive_exists, timeout, checks, sleeps, coord, exit_status, manager,
          file_queue, writer_queue, indexer, jobs, writer, output_file, swift,
          fq_put, wq_put, taken, decoders, dec, dec_calls, store, sql_last,
          os_environ, amaterial, os_vars, conn>>

\* the state of the Decoder and of the SQL store taken on their own
\* the credential file and what is made of it
credVars == <<os_environ, amaterial, os_vars, conn>>
pureVars == <<dec, dec_calls, store, sql_last, credVars>>

Workers == 1..MaxWorkers
N == args.processors
Local == args.variant = "local"

EOP == "EOP"
Sentinel(k) == [who |-> "main", str |-> TRUE, name |-> EOP, id |-> k]
\* A zip work item is the member's name, a tar work item its TarInfo.
WorkItem(kind, m, i) == [who |-> "indexer", str |-> kind = "zip", name |-> m.name, id |-> i]
\* isinstance(archive_file, basestring) and archive_file == 'EOP'
IsEOP(item) == item.str /\ item.name = EOP

InitState(argSet, archSet, existsSet, envSet, tableSet) ==
  /\ os_environ \in envSet
  /\ args \in argSet
  /\ archive \in archSet
  /\ archive_exists \in existsSet
  /\ timeout = args.time_out
  /\ checks = 0
  /\ sleeps = 0
  /\ coord = [pc |-> "poll", k |-> 0]
  /\ exit_status = << >>
  /\ manager = "none"
  /\ file_queue = << >>
  /\ writer_queue = << >>
  /\ indexer = [pc |-> "new", pos |-> 1]
  /\ jobs = [w \in Workers |-> [pc |-> "new", pending |-> << >>, raises |-> FALSE]]
  /\ writer = "new"
  /\ output_file = [exists |-> FALSE, written |-> << >>, flushed |-> 0]
  /\ swift = << >>
  /\ fq_put = << >>
  /\ wq_put = << >>
  /\ taken = [w \in Workers |-> << >>]
  /\ decoders = [w \in Workers |-> << >>]
  /\ dec = NewDecoder
  /\ dec_calls = << >>
  /\ store \in tableSet
  /\ sql_last = [op |-> "none", table |-> {}, id |-> 0, called |-> FALSE,
                 data |-> "", ret |-> << >>, obj |-> << >>, raised |-> ""]
  /\ amaterial = [exists |-> FALSE, chars |-> << >>]
  /\ os_vars = [loaded |-> FALSE, vars |-> << >>]
  /\ conn = [w \in Workers |-> NoConnection]

\* The start of a pipeline run, whose environment is of no account.
InitWith(argSet, archSet, existsSet) ==
  InitState(argSet, archSet, existsSet, {[k \in CredKeys |-> <<"x">>]}, {NewTable(TRUE)})

\* Every command line on every archive over Catalog, present or not when
\* main starts.
Init == InitWith(AllArgs, ArchivesOver(Catalog, MaxMembers), BOOLEAN)

\* The runs of the coordination properties, csv output only: either the
\* archive is there from the start (the poll loop is left at its first
\* test, so one time-out stands for all) and the
\* members come from CoreCatalog, or the archive is missing at the start,
\* every time-out is tried and the archive, if it appears, holds at most
\* one member for one worker.
CoreArgs(counts, timeouts, outputs) ==
  ArgsOver({"local"}, counts, timeouts, {"csv"}, {FALSE}, outputs, {NoOutput})
    \cup ArgsOver({"remote"}, counts, timeouts, {"csv"}, {FALSE}, {NoOutput}, {"runs/42/"})

InitCore ==
  \/ InitWith(CoreArgs(1..MaxWorkers, {MaxTimeout}, {NoOutput, "out"}),
              ArchivesOver(CoreCatalog, MaxMembers), {TRUE})
  \/ InitWith(CoreArgs({1}, 0..MaxTimeout, {NoOutput}),
              ArchivesOver(CoreCatalog, 1), {FALSE})

(***************************************************************************)
(* The main process.                                                       *)
(***************************************************************************)
\* the loop test as it would be with "if timeout >= 0"
TimedOut_OffByOne(t) == ~(t >= 0)
\* if timeout > 0: ... else: exit(-2)
TimedOut(t) == ~(t > 0)

\* main as it would be without indexer.join()
IndexerJoined_NoWait == TRUE
\* indexer.join() returns once the indexer process has ended, however it did.
IndexerJoined == indexer.pc \in {"done", "failed"}

\* main as it would be without job.join()
JobJoined_NoWait(w) == TRUE
\* job.join() returns once that worker process has ended, however it did.
JobJoined(w) == jobs[w].pc \in {"exited", "died"}

\* the loop as it would be with "timeout -= 2"
AfterFailedTest_Twice(t) == t - 2
\* timeout -= 1
AfterFailedTest(t) == t - 1

\* while not os.path.exists(archive_path): one test of the loop condition
\* and, when it fails, the decrement and the timeout test.
CoordPoll ==
  /\ coord.pc = "poll"
  /\ checks' = checks + 1
  /\ IF archive_exists
     THEN /\ coord' = [coord EXCEPT !.pc = "start_indexer"]
          /\ UNCHANGED <<timeout, exit_status>>
     ELSE /\ timeout' = AfterFailedTest(timeout)
          /\ IF ~TimedOut(timeout')
             THEN /\ coord' = [coord EXCEPT !.pc = "sleep"]
                  /\ UNCHANGED exit_status
             ELSE /\ coord' = [coord EXCEPT !.pc = "aborted"]
                  /\ exit_status' = <<-2>>
  /\ UNCHANGED <<args, archive, archive_exists, manager, file_queue, writer_queue, indexer,
                 jobs, writer, output_file, swift, fq_put, wq_put, taken>>
  /\ UNCHANGED <<decoders, sleeps, pureVars>>

\* time.sleep(1)
CoordSleep ==
  /\ coord.pc = "sleep"
  /\ sleeps' = sleeps + 1
  /\ coord' = [coord EXCEPT !.pc = "poll"]
  /\ UNCHANGED <<args, archive, archive_exists, timeout, checks, exit_status, manager,
                 file_queue, writer_queue, indexer, jobs, writer, output_file, swift,
                 fq_put, wq_put, taken>>
  /\ UNCHANGED <<decoders, pureVars>>

\* Somebody else puts the archive in place while main waits for it.
ArchiveAppears ==
  /\ coord.pc \in {"poll", "sleep"}
  /\ ~archive_exists
  /\ archive_exists' = TRUE
  /\ UNCHANGED <<args, archive, timeout, checks, coord, exit_status, manager, file_queue,
                 writer_queue, indexer, jobs, writer, output_file, swift, fq_put, wq_put,
                 taken>>
  /\ UNCHANGED <<decoders, sleeps, pureVars>>

\* manager = Manager() ... indexer.start()
CoordStartIndexer ==
  /\ coord.pc = "start_indexer"
  /\ manager' = "up"
  /\ indexer' = [indexer EXCEPT !.pc = "run"]
  /\ coord' = [pc |-> IF Local THEN "setup_output" ELSE "start_jobs", k |-> 0]
  /\ UNCHANGED <<args, archive, archive_exists, timeout, checks, exit_status, file_queue,
                 writer_queue, jobs, writer, output_file, swift, fq_put, wq_put, taken>>
  /\ UNCHANGED <<decoders, sleeps, pureVars>>

\* The output file's name.  With -o given, args.archives is read: argparse
\* defines args.archive only, AttributeError ends main, and its exit
\* handlers shut the manager down.
CoordSetupOutput ==
  /\ coord.pc = "setup_output"
  /\ IF args.output # NoOutput
     THEN /\ coord' = [coord EXCEPT !.pc = "crashed"]
          /\ exit_status' = <<1>>
          /\ manager' = "down"
     ELSE /\ coord' = [coord EXCEPT !.pc = "start_writer"]
          /\ UNCHANGED <<exit_status, manager>>
  /\ UNCHANGED <<args, archive, archive_exists, timeout, checks, file_queue, writer_queue,
                 indexer, jobs, writer, output_file, swift, fq_put, wq_put, taken>>
  /\ UNCHANGED <<decoders, sleeps, pureVars>>

\* writer = Process(target=mp_writer, ...); writer.start()
CoordStartWriter ==
  /\ coord.pc = "start_writer"
  /\ writer' = "open"
  /\ coord' = [pc |-> "start_jobs", k |-> 0]
  /\ UNCHANGED <<args, archive, archive_exists, timeout, checks, exit_status, manager,
                 file_queue, writer_queue, indexer, jobs, output_file, swift, fq_put,
                 wq_put, taken>>
  /\ UNCHANGED <<decoders, sleeps, pureVars>>

\* for job in jobs: job.start()
CoordStartJob ==
  /\ coord.pc = "start_jobs"
  /\ jobs' = [jobs EXCEPT ![coord.k + 1].pc = "get"]
  /\ coord' = IF coord.k + 1 = N THEN [pc |-> "join_indexer", k |-> 0]
              ELSE [coord EXCEPT !.k = coord.k + 1]
  /\ UNCHANGED <<args, archive, archive_exists, timeout, checks, exit_status, manager,
                 file_queue, writer_queue, indexer, writer, output_file, swift, fq_put,
                 wq_put, taken>>
  /\ UNCHANGED <<decoders, sleeps, pureVars>>

\* indexer.join()
CoordJoinIndexer ==
  /\ coord.pc = "join_indexer"
  /\ IndexerJoined
  /\ coord' = [pc |-> "put_eop", k |-> 0]
  /\ UNCHANGED <<args, archive, archive_exists, timeout, checks, exit_status, manager,
                 file_queue, writer_queue, indexer, jobs, writer, output_file, swift,
                 fq_put, wq_put, taken>>
  /\ UNCHANGED <<decoders, sleeps, pureVars>>

\* for job in jobs: file_queue.put('EOP')
CoordPutEOP ==
  /\ coord.pc = "put_eop"
  /\ file_queue' = Append(file_queue, Sentinel(coord.k + 1))
  /\ fq_put' = Append(fq_put, Sentinel(coord.k + 1))
  /\ coord' = IF coord.k + 1 = N THEN [pc |-> "join_jobs", k |-> 0]
              ELSE [coord EXCEPT !.k = coord.k + 1]
  /\ UNCHANGED <<args, archive, archive_exists, timeout, checks, exit_status, manager,
                 writer_queue, indexer, jobs, writer, output_file, swift, wq_put, taken>>
  /\ UNCHANGED <<decoders, sleeps, pureVars>>

\* for job in jobs: job.join().  After the last one the remote variant is
\* finished; the local one goes on to stop the writer.
CoordJoinJob ==
  /\ coord.pc = "join_jobs"
  /\ JobJoined(coord.k + 1)
  /\ IF coord.k + 1 < N
     THEN /\ coord' = [coord EXCEPT !.k = coord.k + 1]
          /\ UNCHANGED <<exit_status, manager>>
     ELSE IF Local
          THEN /\ coord' = [pc |-> "put_writer_eop", k |-> 0]
               /\ UNCHANGED <<exit_status, manager>>
          ELSE /\ coord' = [pc |-> "done", k |-> 0]
               /\ exit_status' = <<0>>
               /\ manager' = "down"
  /\ UNCHANGED <<args, archive, archive_exists, timeout, checks, file_queue, writer_queue,
                 indexer, jobs, writer, output_file, swift, fq_put, wq_put, taken>>
  /\ UNCHANGED <<decoders, sleeps, pureVars>>

\* writer_queue.put('EOP')
CoordPutWriterEOP ==
  /\ coord.pc = "put_writer_eop"
  /\ writer_queue' = Append(writer_queue, [who |-> 0, m |-> EOP, item |-> 0])
  /\ wq_put' = Append(wq_put, [who |-> 0, m |-> EOP, item |-> 0])
  /\ coord' = [coord EXCEPT !.pc = "join_writer"]
  /\ UNCHANGED <<args, archive, archive_exists, timeout, checks, exit_status, manager,
                 file_queue, indexer, jobs, writer, output_file, swift, fq_put, taken>>
  /\ UNCHANGED <<decoders, sleeps, pureVars>>

\* main as it would be without writer.join()
WriterJoined_NoWait == TRUE
\* writer.join() returns once the writer process has ended.
WriterJoined == writer = "exited"

\* writer.join()
CoordJoinWriter ==
  /\ coord.pc = "join_writer"
  /\ WriterJoined
  /\ coord' = [coord EXCEPT !.pc = "done"]
  /\ exit_status' = <<0>>
  /\ manager' = "down"
  /\ UNCHANGED <<args, archive, archive_exists, timeout, checks, file_queue, writer_queue,
                 indexer, jobs, writer, output_file, swift, fq_put, wq_put, taken>>
  /\ UNCHANGED <<decoders, sleeps, pureVars>>

(***************************************************************************)
(* The indexer process: queue_archive_files(ap, fq).                       *)
(***************************************************************************)
\* Neither is_zipfile nor is_tarfile: raise IOError, which ends the process.
IndexerFail ==
  /\ indexer.pc = "run"
  /\ archive.kind = "bad"
  /\ indexer' = [indexer EXCEPT !.pc = "failed"]
  /\ UNCHANGED <<args, archive, archive_exists, timeout, checks, coord, exit_status, manager,
                 file_queue, writer_queue, jobs, writer, output_file, swift, fq_put, wq_put,
                 taken>>
  /\ UNCHANGED <<decoders, sleeps, pureVars>>

\* One turn of the loop over the archive's entries.  A put on a queue whose
\* manager is gone raises, which ends the process.
IndexerNext ==
  /\ indexer.pc = "run"
  /\ archive.kind # "bad"
  /\ indexer.pos <= Len(archive.members)
  /\ LET m == archive.members[indexer.pos]
         item == WorkItem(archive.kind, m, indexer.pos)
     IN  IF ~Enqueued(archive.kind, m)
         THEN /\ indexer' = [indexer EXCEPT !.pos = indexer.pos + 1]
              /\ UNCHANGED <<file_queue, fq_put>>
         ELSE IF manager = "up"
              THEN /\ file_queue' = Append(file_queue, item)
                   /\ fq_put' = Append(fq_put, item)
                   /\ indexer' = [indexer EXCEPT !.pos = indexer.pos + 1]
              ELSE /\ indexer' = [indexer EXCEPT !.pc = "failed"]
                   /\ UNCHANGED <<file_queue, fq_put>>
  /\ UNCHANGED <<args, archive, archive_exists, timeout, checks, coord, exit_status, manager,
                 writer_queue, jobs, writer, output_file, swift, wq_put, taken>>
  /\ UNCHANGED <<decoders, sleeps, pureVars>>

\* The loop is over: the process exits.
IndexerDone ==
  /\ indexer.pc = "run"
  /\ archive.kind # "bad"
  /\ indexer.pos > Len(archive.members)
  /\ indexer' = [indexer EXCEPT !.pc = "done"]
  /\ UNCHANGED <<args, archive, archive_exists, timeout, checks, coord, exit_status, manager,
                 file_queue, writer_queue, jobs, writer, output_file, swift, fq_put, wq_put,
                 taken>>
  /\ UNCHANGED <<decoders, sleeps, pureVars>>

(***************************************************************************)
(* The worker processes: process_archive.                                  *)
(***************************************************************************)
AfterGet_Peek(q) == q
\* fq.get() / wq.get() removes the item it returns.
AfterGet(q) == Tail(q)

AfterEOP_Continue == "get"
\* break: the worker leaves its loop and the process ends.
AfterEOP == "exited"

\* what the worker sees of post_data_to_writer
PostResult(post) == [msgs |-> post.msgs, raises |-> ~post.ok]

\* post_data_to_writer(extract_file(...), wq, ot) for decoded data: nothing
\* is put when extract_file raised.
PostExtracted(data, ot) ==
  IF ~data.ok THEN [msgs |-> << >>, raises |-> TRUE]
  ELSE PostResult(PostDataToWriter(data.rows, ot))

\* one member m, as read from the archive
ExtractMember(arch, m, ot) ==
  IF arch.kind = "tar" /\ m.closed THEN [msgs |-> << >>, raises |-> FALSE]
  ELSE PostExtracted(ExtractFile(m.blob), ot)

\* archive-etl.py, extract_zip_file / extract_tar_file for one work item:
\* the messages to put, in order, and whether an exception then ends the
\* worker.  A tar member whose handle reports closed is skipped.
ExtractLocal(arch, item, ot) == ExtractMember(arch, ReadMember(arch, item), ot)

\* the Decoder made for the member m of a work item
DecodersOf(arch, item, m) ==
  IF arch.kind = "tar" /\ m.closed THEN << >>
  ELSE <<[item |-> item.id, self |-> DecoderDecode(NewDecoder, m.blob.lines).self]>>

\* The Decoder instances extract_file makes for one work item, each as
\* decode left it: one per member read, none for a tar member whose handle
\* reports closed.
DecodersMade(arch, item) == DecodersOf(arch, item, ReadMember(arch, item))

\* str.format of a prefix: None is written "None".
FormatPrefix(pf) == IF pf = NoOutput THEN "None" ELSE pf
\* str.format of a work item: a zip name as it is, a TarInfo by its repr.
FormatPath(item) == IF item.str THEN item.name ELSE "<TarInfo '" \o item.name \o "' at 0x7f01>"
\* '{prefix}{path}'.format(prefix=pf, path=archive_file)
ObjectKey(pf, item) == FormatPrefix(pf) \o FormatPath(item)

\* unpack-swift.py, extract_zip_file / extract_tar_file: what the generator
\* handed to put_object yields.
ExtractRemote(arch, item) ==
  LET m == ReadMember(arch, item)
  IN  IF arch.kind # "zip" /\ m.closed THEN << >> ELSE <<m.blob>>

\* The worker w with the messages out of one member still to put: it puts
\* them one by one, and the exception, if any, ends it after the last.
JobWith(w, item, out) ==
  [pc |-> IF out.msgs # << >> THEN "post" ELSE IF out.raises THEN "died" ELSE "get",
   pending |-> [i \in 1..Len(out.msgs) |-> [who |-> w, m |-> out.msgs[i], item |-> item.id]],
   raises |-> out.raises]

\* archive_file = fq.get() and what follows it up to the next queue
\* operation.  The local worker computes the member's messages; the remote
\* worker calls put_object, which succeeds or raises.
WorkerGet(w) ==
  /\ jobs[w].pc = "get"
  /\ file_queue # << >>
  /\ LET item == Head(file_queue)
     IN  /\ file_queue' = AfterGet(file_queue)
         /\ taken' = [taken EXCEPT ![w] = Append(@, item)]
         /\ IF IsEOP(item)
            THEN /\ jobs' = [jobs EXCEPT ![w].pc = AfterEOP]
                 /\ UNCHANGED <<swift, decoders>>
            ELSE IF Local
                 THEN /\ jobs' = [jobs EXCEPT ![w] =
                            JobWith(w, item, ExtractLocal(archive, item, args.output_format))]
                      /\ decoders' = [decoders EXCEPT ![w] = @ \o DecodersMade(archive, item)]
                      /\ UNCHANGED swift
                 ELSE \E ok \in BOOLEAN :
                        /\ UNCHANGED decoders
                        /\ IF ok
                           THEN /\ swift' = Append(swift, [key |-> ObjectKey(args.prefix, item),
                                                           data |-> ExtractRemote(archive, item),
                                                           who |-> w, item |-> item.id])
                                /\ UNCHANGED jobs
                           ELSE /\ jobs' = [jobs EXCEPT ![w].pc = "died"]
                                /\ UNCHANGED swift
  /\ UNCHANGED <<args, archive, archive_exists, timeout, checks, coord, exit_status, manager,
                 writer_queue, indexer, writer, output_file, fq_put, wq_put>>
  /\ UNCHANGED <<sleeps, pureVars>>

\* wq.put(...) of the next message of the member being processed.
WorkerPut(w) ==
  /\ jobs[w].pc = "post"
  /\ writer_queue' = Append(writer_queue, Head(jobs[w].pending))
  /\ wq_put' = Append(wq_put, Head(jobs[w].pending))
  /\ jobs' = [jobs EXCEPT ![w] =
                [pc |-> IF Len(jobs[w].pending) > 1 THEN "post"
                        ELSE IF jobs[w].raises THEN "died" ELSE "get",
                 pending |-> Tail(jobs[w].pending),
                 raises |-> jobs[w].raises]]
  /\ UNCHANGED <<args, archive, archive_exists, timeout, checks, coord, exit_status, manager,
                 file_queue, indexer, writer, output_file, swift, fq_put, taken>>
  /\ UNCHANGED <<decoders, sleeps, pureVars>>

(***************************************************************************)
(* The writer process: mp_writer(o, wq, compress).                         *)
(***************************************************************************)
\* bz2.BZ2File(o, 'wb') / open(o, 'wb'): the file exists and is empty.
WriterOpen ==
  /\ writer = "open"
  /\ writer' = "get"
  /\ output_file' = [exists |-> TRUE, written |-> << >>, flushed |-> 0]
  /\ UNCHANGED <<args, archive, archive_exists, timeout, checks, coord, exit_status, manager,
                 file_queue, writer_queue, indexer, jobs, swift, fq_put, wq_put, taken>>
  /\ UNCHANGED <<decoders, sleeps, pureVars>>

\* the writer as it would be if it put each line in front of the others
AfterWrite_InFront(written, msg) == <<msg>> \o written
\* fp.write('{0}\n'.format(m)): the line goes behind what is written.
AfterWrite(written, msg) == Append(written, msg)

\* the writer as it would be without fp.flush() after fp.write
FlushesEachLine_Never == FALSE
\* fp.flush() follows fp.write on the path without compression only.
FlushesEachLine == args.no_compression

\* m = wq.get(); on 'EOP' leave the loop (the with block closes the file,
\* which writes out what is buffered); otherwise write the line, and flush
\* it when the file is not compressed.
WriterGet ==
  /\ writer = "get"
  /\ writer_queue # << >>
  /\ LET msg == Head(writer_queue)
     IN  /\ writer_queue' = AfterGet(writer_queue)
         /\ IF msg.m = EOP
            THEN /\ writer' = "exited"
                 /\ output_file' = [output_file EXCEPT !.flushed = Len(output_file.written)]
            ELSE /\ writer' = "get"
                 /\ output_file' =
                      [output_file EXCEPT
                         !.written = AfterWrite(@, msg),
                         !.flushed = IF FlushesEachLine
                                     THEN Len(output_file.written) + 1 ELSE @]
  /\ UNCHANGED <<args, archive, archive_exists, timeout, checks, coord, exit_status, manager,
                 file_queue, indexer, jobs, swift, fq_put, wq_put, taken>>
  /\ UNCHANGED <<decoders, sleeps, pureVars>>

(***************************************************************************)
(* The system.                                                             *)
(***************************************************************************)
Next ==
  \/ CoordPoll
  \/ CoordSleep
  \/ ArchiveAppears
  \/ CoordStartIndexer
  \/ CoordSetupOutput
  \/ CoordStartWriter
  \/ CoordStartJob
  \/ CoordJoinIndexer
  \/ CoordPutEOP
  \/ CoordJoinJob
  \/ CoordPutWriterEOP
  \/ CoordJoinWriter
  \/ IndexerFail
  \/ IndexerNext
  \/ IndexerDone
  \/ \E w \in Workers : WorkerGet(w)
  \/ \E w \in Workers : WorkerPut(w)
  \/ WriterOpen
  \/ WriterGet

Spec == Init /\ [][Next]_vars

SpecCore == InitCore /\ [][Next]_vars

\* The runs of the writer's properties: the local variant with csv output,
\* compressed or not, on zip archives whose members give two rows and one row;
\* as in InitCore the archive is there from the start, or it is missing and
\* holds at most one member for one worker.
SinkCatalog == {MemberCsv, MemberRow}

SinkArgs(counts, timeouts) ==
  ArgsOver({"local"}, counts, timeouts, {"csv"}, BOOLEAN, {NoOutput}, {NoOutput})

\* the writer sees no difference between a zip and a tar archive
SinkArchives(n) == {a \in ArchivesOver(SinkCatalog, n) : a.kind # "tar"}

InitSink ==
  \/ InitWith(SinkArgs(1..MaxWorkers, {MaxTimeout}), SinkArchives(MaxMembers), {TRUE})
  \/ InitWith(SinkArgs({1}, 0..MaxTimeout), SinkArchives(1), {FALSE})

SpecSink == InitSink /\ [][Next]_vars

\* The runs with an entry whose handle reports closed, next to one that can
\* be read: both variants, laid out as InitCore.
HandleCatalog == {MemberRow, MemberClosed}

InitHandle ==
  \/ InitWith(CoreArgs(1..MaxWorkers, {MaxTimeout}, {NoOutput}),
              ArchivesOver(HandleCatalog, MaxMembers), {TRUE})
  \/ InitWith(CoreArgs({1}, 0..MaxTimeout, {NoOutput}),
              ArchivesOver(HandleCatalog, 1), {FALSE})

SpecHandle == InitHandle /\ [][Next]_vars

(***************************************************************************)
(* A Decoder instance on its own: decode called on it again and again.     *)
(***************************************************************************)
\* A blob of more lines than the sample window: a comment in line 2, and
\* the first line of another dialect just behind the window.
LongBlob ==
  <<"1,2", "#c", "1,2", "1,2", "1,2", "1,2", "1,2", "1,2", "1,2", "1,2", "a;b", "1,2">>

\* The blobs decode is called with: csv of one dialect, csv of another, an
\* array in one line, the same array over two lines, arrays line by line
\* with a line that does not parse, a scalar, lines of two dialects, a
\* comment line, a final newline, an empty first line, and LongBlob.
DecoderBlobs ==
  { <<"1,2", "3,4">>, <<"a;b">>, <<"[[\"a\",\"b\"]]">>, <<"[[\"a\",", "\"b\"]]">>,
    <<"[1]", "x,y", "[\"ab\"]">>, <<"1">>, <<"1,2", "a;b">>, <<"1,2", "#c", "3,4">>,
    <<"1,2", "">>, <<"", "1,2">>, LongBlob }

\* One Decoder for the whole run, nothing else going on.
InitDecoder ==
  InitWith(ArgsOver({"local"}, {1}, {0}, {"csv"}, {FALSE}, {NoOutput}, {NoOutput}),
           {[kind |-> "zip", members |-> << >>]}, {FALSE})

\* decoder.decode(data) on the instance dec.
DecoderCall ==
  /\ Len(dec_calls) < MaxCalls
  /\ \E lines \in DecoderBlobs :
       LET r == DecoderDecode(dec, lines)
       IN  /\ dec' = r.self
           /\ dec_calls' = Append(dec_calls, [lines |-> lines, before |-> dec, after |-> r.self,
                                              ok |-> r.ok, rows |-> r.rows])
  /\ UNCHANGED <<args, archive, archive_exists, timeout, checks, sleeps, coord, exit_status, manager,
                 file_queue, writer_queue, indexer, jobs, writer, output_file, swift,
                 fq_put, wq_put, taken, decoders, store, sql_last, credVars>>

NextDecoder == DecoderCall

SpecDecoder == InitDecoder /\ [][NextDecoder]_vars

(***************************************************************************)
(* persistence/sql.py: sql_next_id and the calls on one SqlStore.          *)
(***************************************************************************)
\* select max(id) from store, on a table that has rows
SqlMax(table) == CHOOSE m \in table : \A x \in table : x <= m

\* sql_next_id as it would be if it counted the rows
SqlNextId_Count(table) == Cardinality(table) + 1
\* sql_next_id(): fetchone()[0] is None on an empty table; "if not nextid"
\* holds for None and for 0.
SqlNextId(table) ==
  IF table = {} \/ SqlMax(table) = 0 THEN 1 ELSE SqlMax(table) + 1

\* what the store does not touch
notSql == <<args, archive, archive_exists, timeout, checks, sleeps, coord, exit_status, manager,
            file_queue, writer_queue, indexer, jobs, writer, output_file, swift,
            fq_put, wq_put, taken, decoders, dec, dec_calls, credVars>>

\* A store without rows, on a table it made or on one that was there.
InitSql ==
  InitState(ArgsOver({"local"}, {1}, {0}, {"csv"}, {FALSE}, {NoOutput}, {NoOutput}),
            {[kind |-> "zip", members |-> << >>]}, {FALSE},
            {[k \in CredKeys |-> <<"x">>]}, {NewTable(TRUE), NewTable(FALSE)})

\* The record of a call on the store in its present state.
LastCall(op, id, called, data, ret, obj, raised) ==
  [op |-> op, table |-> IdColumn(store), id |-> id, called |-> called,
   data |-> data, ret |-> ret, obj |-> obj, raised |-> raised]

\* A call of sql_next_id().
SqlNextIdCall ==
  /\ sql_last' = LastCall("sql_next_id", SqlNextId(IdColumn(store)), TRUE, "",
                          << >>, << >>, "")
  /\ UNCHANGED <<store, notSql>>

\* The statements of _save_or_replace(id_, obj) and what the caller gets:
\* save returns obj.persistent_id, replace returns nothing.
SaveCall(op, id, called, data, r) ==
  /\ store' = r.table
  /\ sql_last' = LastCall(op, id, called, data,
                          IF r.raised = "" /\ op = "save" THEN <<id>> ELSE << >>,
                          << >>, r.raised)
  /\ UNCHANGED notSql

\* SqlStore.save(obj) of an object without persistent_id, the id factory
\* drawing its number from sql_next_id.
SqlSaveNew ==
  /\ SqlNextId(IdColumn(store)) <= MaxId
  /\ \E data \in Pickles :
       SaveCall("save", SqlNextId(IdColumn(store)), TRUE, data,
                SaveOrReplace(store, SqlNextId(IdColumn(store)), data))

\* SqlStore.save(obj) of an object that has a persistent_id.
SqlSaveKnown ==
  \E id \in Ids, data \in Pickles :
    SaveCall("save", id, FALSE, data, SaveOrReplace(store, id, data))

\* SqlStore.replace(id_, obj)
SqlReplace ==
  \E id \in Ids, data \in Pickles :
    SaveCall("replace", id, FALSE, data, SaveOrReplace(store, id, data))

\* SqlStore.load(id_): LoadError when the select fetches no row, else the
\* object unpickled from the data of the row fetched.
SqlLoad ==
  /\ \E id \in Ids :
       sql_last' = IF SelectWhere(store, id) = << >>
                   THEN LastCall("load", id, FALSE, "", << >>, << >>, "LoadError")
                   ELSE LastCall("load", id, FALSE, "", << >>,
                                 <<SelectWhere(store, id)[1]>>, "")
  /\ UNCHANGED <<store, notSql>>

\* SqlStore.remove(id_): delete ... where id == id_.
SqlRemove ==
  /\ \E id \in Ids :
       /\ store' = Delete(store, id)
       /\ sql_last' = LastCall("remove", id, FALSE, "", << >>, << >>, "")
  /\ UNCHANGED notSql

NextSql ==
  SqlNextIdCall \/ SqlSaveNew \/ SqlSaveKnown \/ SqlReplace \/ SqlLoad \/ SqlRemove

SpecSql == InitSql /\ [][NextSql]_vars

(***************************************************************************)
(* The hand-off of the credentials from gunpacker.py to unpack-swift.py.    *)
(***************************************************************************)
\* what the hand-off does not touch
notCred == <<args, archive, archive_exists, timeout, checks, sleeps, coord, exit_status, manager,
             file_queue, writer_queue, indexer, jobs, writer, output_file, swift,
             fq_put, wq_put, taken, decoders, dec, dec_calls, store, sql_last>>

\* Any environment, nothing else going on.
InitCred ==
  InitState(ArgsOver({"remote"}, {MaxWorkers}, {0}, {"csv"}, {FALSE}, {NoOutput}, {NoOutput}),
            {[kind |-> "zip", members |-> << >>]}, {FALSE}, [CredKeys -> CredValues],
            {NewTable(TRUE)})

\* gunpackerApplication.__init__: with open('amaterial.dat', 'w') ...
FrontEndWrite ==
  /\ ~amaterial.exists
  /\ amaterial' = [exists |-> TRUE, chars |-> WriteCredentials(os_environ)]
  /\ UNCHANGED <<os_environ, os_vars, conn, notCred>>

\* unpack-swift.py: os_vars = {}; with open('amaterial.dat', 'r') ...
LoadCredentials ==
  /\ amaterial.exists
  /\ ~os_vars.loaded
  /\ os_vars' = [loaded |-> TRUE,
                 vars |-> LoadCredentialLines(<< >>, FileLinesOf(amaterial.chars))]
  /\ UNCHANGED <<os_environ, amaterial, conn, notCred>>

\* process_archive(ap, fq, sc, con, pf) in worker w, sc being os_vars: the
\* connection it opens.
WorkerConnect(w) ==
  /\ os_vars.loaded
  /\ w \in 1..N
  /\ conn[w] = NoConnection
  /\ conn' = [conn EXCEPT ![w] = Connection(os_vars.vars)]
  /\ UNCHANGED <<os_environ, amaterial, os_vars, notCred>>

NextCred == FrontEndWrite \/ LoadCredentials \/ \E w \in Workers : WorkerConnect(w)

SpecCred == InitCred /\ [][NextCred]_vars

(***************************************************************************)
(* Vocabulary of the properties.                                           *)
(***************************************************************************)
Started == 1..N                      \* the workers main creates
IsSentinel(item) == item.who = "main"
IsMember(item) == item.who = "indexer"
Sentinels(seq) == {i \in 1..Len(seq) : IsSentinel(seq[i])}
Members(seq) == {i \in 1..Len(seq) : IsMember(seq[i])}
Count(seq, x) == Cardinality({i \in 1..Len(seq) : seq[i] = x})
\* main has left the poll loop with the archive in place
Accepted == coord.pc \notin {"poll", "sleep", "aborted"}
\* main is past "for job in jobs: job.join()"
AllJoined == coord.pc \in {"put_writer_eop", "join_writer", "done"}
TookSentinel(w) == Sentinels(taken[w]) # {}
\* on the output queue a message names the worker that put it, 0 for main
FromWorker(msg) == msg.who # 0
FromMain(msg) == msg.who = 0
WorkerMessages(seq) == SelectSeq(seq, FromWorker)
FromMainAt(seq) == {i \in 1..Len(seq) : FromMain(seq[i])}

(***************************************************************************)
(* C1.  In both variants the work-queue sentinels are put only after main  *)
(* has joined the indexer: in the history of puts on the work queue every  *)
(* member precedes every sentinel, and a sentinel is there only when the   *)
(* indexer has ended and main is past indexer.join().                      *)
(***************************************************************************)
C1_MembersBeforeSentinels ==
  /\ \A i, j \in 1..Len(fq_put) :
       IsSentinel(fq_put[i]) /\ IsMember(fq_put[j]) => j < i
  /\ Sentinels(fq_put) # {}
       => /\ indexer.pc \in {"done", "failed"}
          /\ coord.pc \in {"put_eop", "join_jobs", "put_writer_eop", "join_writer", "done"}

\* Two members and a sentinel were put, and a worker has taken a member.
C1_Witness ==
  /\ Cardinality(Members(fq_put)) = 2
  /\ Sentinels(fq_put) # {}
  /\ \E w \in Started : Members(taken[w]) # {}

(***************************************************************************)
(* C2 as stated: main enqueues exactly N sentinels and, once it has joined *)
(* all workers, exactly N sentinels have been dequeued, one by each        *)
(* worker, and no worker takes more than one or anything after it.         *)
(***************************************************************************)
C2_ExactlyNSentinelsDequeued ==
  /\ Cardinality(Sentinels(fq_put)) <= N
  /\ \A w \in Workers : Sentinels(taken[w]) \subseteq {Len(taken[w])}
  /\ AllJoined =>
       /\ Cardinality(Sentinels(fq_put)) = N
       /\ \A w \in Started : TookSentinel(w)

(***************************************************************************)
(* C2 amended: main enqueues exactly N sentinels; a worker dequeues at     *)
(* most one sentinel and takes nothing from the work queue after it; no    *)
(* sentinel is dequeued by two workers; and once main has joined all       *)
(* workers, the sentinels still in the queue are as many as the workers    *)
(* that ended without dequeuing one, each of which was ended by an         *)
(* exception or by a zip member named like the sentinel.                   *)
(***************************************************************************)
C2_OneSentinelPerSurvivingWorker ==
  /\ Cardinality(Sentinels(fq_put)) <= N
  /\ coord.pc \in {"join_jobs", "put_writer_eop", "join_writer", "done"}
       => Cardinality(Sentinels(fq_put)) = N
  /\ \A w \in Workers : Sentinels(taken[w]) \subseteq {Len(taken[w])}
  /\ \A v, w \in Workers : \A i \in 1..Len(taken[v]) : \A j \in 1..Len(taken[w]) :
       IsSentinel(taken[v][i]) /\ taken[v][i] = taken[w][j] => v = w
  /\ AllJoined =>
       /\ Cardinality(Sentinels(file_queue))
            = Cardinality({w \in Started : ~TookSentinel(w)})
       /\ \A w \in Started :
            \/ TookSentinel(w) /\ jobs[w].pc = "exited"
            \/ jobs[w].pc = "died"
            \/ /\ jobs[w].pc = "exited" /\ taken[w] # << >>
               /\ IsMember(taken[w][Len(taken[w])]) /\ IsEOP(taken[w][Len(taken[w])])

\* All workers are joined: one dequeued its sentinel, another died, and that
\* one's sentinel is still in the queue.
C2_Witness ==
  /\ AllJoined
  /\ \E v, w \in Started : TookSentinel(v) /\ jobs[w].pc = "died"
  /\ Sentinels(file_queue) # {}

(***************************************************************************)
(* C3.  Local variant: the one sentinel of the output queue is put only    *)
(* after every worker has ended, so every message a worker ever puts       *)
(* precedes it in the queue's history, and a run that gets that far puts   *)
(* exactly one.                                                            *)
(***************************************************************************)
C3_SinkSentinelAfterWorkers ==
  /\ \A i, j \in 1..Len(wq_put) :
       FromMain(wq_put[i]) /\ FromWorker(wq_put[j]) => j < i
  /\ Cardinality(FromMainAt(wq_put)) <= 1
  /\ FromMainAt(wq_put) # {}
       => Local /\ \A w \in Started : jobs[w].pc \in {"exited", "died"}
  /\ Local /\ coord.pc \in {"join_writer", "done"}
       => Cardinality(FromMainAt(wq_put)) = 1
  /\ ~Local => wq_put = << >>

\* The run is over and the queue saw messages of two workers, then the
\* sentinel.
C3_Witness ==
  /\ Local /\ coord.pc = "done"
  /\ \E i, j \in 1..Len(wq_put) :
       /\ FromWorker(wq_put[i]) /\ FromWorker(wq_put[j])
       /\ wq_put[i].who # wq_put[j].who
  /\ FromMain(wq_put[Len(wq_put)])

(***************************************************************************)
(* C4 as stated: when the writer exits, every message a worker put on the  *)
(* output queue has been written to the file, whatever its content.        *)
(***************************************************************************)
C4_SinkDrainsEverything ==
  writer = "exited" =>
    /\ output_file.written = WorkerMessages(wq_put)
    /\ WorkerMessages(writer_queue) = << >>

(***************************************************************************)
(* C5 as stated: when the local pipeline is done, the lines of the output  *)
(* file are, as a multiset, the union over the eligible members (regular,  *)
(* size > 0) of the lines the member's content decodes to.                 *)
(***************************************************************************)
Eligible(m) == m.type = "file" /\ m.size > 0
MemberLines(i) ==
  ExtractLocal(archive, WorkItem(archive.kind, archive.members[i], i), args.output_format).msgs
FileLines == [i \in 1..Len(output_file.written) |-> output_file.written[i].m]

C5_OutputIsUnionOfMembers ==
  Local /\ coord.pc = "done" =>
    LET eligible == {i \in 1..Len(archive.members) : Eligible(archive.members[i])}
        lines == {FileLines[i] : i \in 1..Len(FileLines)}
                   \cup UNION {{MemberLines(i)[j] : j \in 1..Len(MemberLines(i))} : i \in eligible}
        Sum[S \in SUBSET eligible, x \in lines] ==
          IF S = {} THEN 0
          ELSE LET i == CHOOSE i \in S : TRUE
               IN  Count(MemberLines(i), x) + Sum[S \ {i}, x]
    IN  \A x \in lines : Count(FileLines, x) = Sum[eligible, x]

(***************************************************************************)
(* C6 as stated, in the form a finite run refutes: once the archive is     *)
(* accepted, the system comes to rest only with main at Done, every worker *)
(* ended by a sentinel and (local variant) the writer ended by its         *)
(* sentinel; nobody is left waiting on an empty queue.                     *)
(***************************************************************************)
C6_TerminatesAtDone ==
  Accepted /\ ~ENABLED Next =>
    /\ coord.pc = "done"
    /\ \A w \in Started : jobs[w].pc = "exited" /\ TookSentinel(w)
    /\ Local => writer = "exited"

(***************************************************************************)
(* C7.  Every work item is taken from the work queue exactly once: an item *)
(* that was put is either still in the queue or in the takes of exactly    *)
(* one worker, once; nothing is taken that was not put; and no member is   *)
(* uploaded twice.                                                         *)
(***************************************************************************)
C7_EachItemTakenOnce ==
  /\ \A i \in 1..Len(fq_put) :
       Count(file_queue, fq_put[i])
         + Cardinality({<<w, k>> \in Workers \X (1..Len(fq_put)) :
                          k <= Len(taken[w]) /\ taken[w][k] = fq_put[i]}) = 1
  /\ \A w \in Workers : \A k \in 1..Len(taken[w]) : Count(fq_put, taken[w][k]) = 1
  /\ \A w \in Workers : Len(taken[w]) <= Len(fq_put)
  /\ \A i, j \in 1..Len(swift) : swift[i].item = swift[j].item => i = j
  /\ \A i \in 1..Len(swift) :
       \E k \in 1..Len(taken[swift[i].who]) :
         /\ IsMember(taken[swift[i].who][k])
         /\ taken[swift[i].who][k].id = swift[i].item

\* Two workers have each taken a member.
C7_Witness ==
  \E v, w \in Started :
    /\ v # w
    /\ Members(taken[v]) # {}
    /\ Members(taken[w]) # {}

(***************************************************************************)
(* C8.  Readiness timeout: while main polls, nothing is spawned and        *)
(* nothing is written; as long as the archive is missing every test so far *)
(* has failed and lowered the counter, and main never waits on with the    *)
(* counter used up; it then is Aborted with exit status -2, which is the   *)
(* only way to that status, still with nothing spawned and no output.      *)
(***************************************************************************)
NothingSpawned ==
  /\ indexer.pc = "new"
  /\ \A w \in Workers : jobs[w].pc = "new"
  /\ writer = "new"
  /\ manager = "none"
  /\ ~output_file.exists
  /\ swift = << >>
  /\ fq_put = << >> /\ wq_put = << >>

C8_ReadinessTimeout ==
  /\ coord.pc \in {"poll", "sleep", "aborted"} => NothingSpawned
  /\ coord.pc = "aborted" => exit_status = <<-2>> /\ ~archive_exists /\ timeout <= 0
  /\ exit_status = <<-2>> => coord.pc = "aborted"
  /\ coord.pc \in {"poll", "sleep"} /\ ~archive_exists
       => /\ checks = args.time_out - timeout
          /\ checks > 0 => timeout >= 1
  /\ coord.pc = "sleep" => timeout >= 1

\* The archive stayed away for a time-out of two tests.
C8_Witness == coord.pc = "aborted" /\ args.time_out = 2 /\ checks = 2

(***************************************************************************)
(* C9 as stated: a run on an archive that is there but is neither zip nor  *)
(* tar ends with a non-zero exit status, and at its end there is no output *)
(* file and nothing was uploaded.                                          *)
(***************************************************************************)
C9_MalformedArchiveIsFatal ==
  archive.kind = "bad" /\ exit_status # << >> /\ exit_status # <<-2>> =>
    /\ exit_status[1] # 0
    /\ ~output_file.exists
    /\ swift = << >>

(***************************************************************************)
(* C10 as stated: with an archive (zip or tar) of zero eligible members    *)
(* the run comes to rest only at Done, and at Done the output file exists  *)
(* and is empty (local), nothing was uploaded (remote), and every worker   *)
(* has exited without having taken a member.                               *)
(***************************************************************************)
C10_ZeroEligibleReachesDone ==
  /\ archive.kind # "bad"
  /\ Accepted
  /\ \A i \in 1..Len(archive.members) : ~Eligible(archive.members[i])
  => /\ ~ENABLED Next => coord.pc = "done"
     /\ coord.pc = "done" =>
          /\ Local => output_file.exists /\ output_file.written = << >>
          /\ ~Local => swift = << >>
          /\ \A w \in Started : jobs[w].pc = "exited" /\ Members(taken[w]) = {}

(***************************************************************************)
(* C11.  The indexer puts a member on the work queue if and only if it is  *)
(* a regular file of size > 0, once, and in the archive's order: at every  *)
(* moment the members put so far are exactly the eligible ones among the   *)
(* entries the indexer has gone through, in their order, and when the      *)
(* indexer returns they are all the eligible entries of the archive.  Zip  *)
(* and tar, both variants.                                                 *)
(***************************************************************************)
EligibleUpTo(n) == {i \in 1..Len(archive.members) : i <= n /\ Eligible(archive.members[i])}
MembersPut == SelectSeq(fq_put, IsMember)

C12_WorkerDecoderSetOnce ==
  \A w \in Workers : \A k \in 1..Len(decoders[w]) :
    /\ decoders[w][k].self.data_type = decoders[w][1].self.data_type
    /\ decoders[w][k].self.dialect = decoders[w][1].self.dialect

(***************************************************************************)
(* C13 as stated, in what it says of errors: in the local variant no error *)
(* in extracting or decoding a member ends the worker; the worker stays in *)
(* its loop and is never ended by an exception.                            *)
(***************************************************************************)
C13_MemberErrorsAreNotFatal ==
  Local => \A w \in Started : jobs[w].pc # "died"

(***************************************************************************)
(* C14 as stated: in the remote variant, once an upload has failed, the    *)
(* worker it failed in has ended on that member (taken last, not uploaded, *)
(* nothing taken after it), and every other worker that has left its loop  *)
(* did so on taking a sentinel main put.                                   *)
(***************************************************************************)
LastTaken(w) == taken[w][Len(taken[w])]
UploadedBy(w, item) == \E i \in 1..Len(swift) : swift[i].who = w /\ swift[i].item = item.id

C14_UploadFailureStopsOnlyItsWorker ==
  ~Local /\ (\E w \in Started : jobs[w].pc = "died") =>
    \A w \in Started :
      /\ jobs[w].pc = "died" => IsMember(LastTaken(w)) /\ ~UploadedBy(w, LastTaken(w))
      /\ jobs[w].pc = "exited" => IsSentinel(LastTaken(w))

(***************************************************************************)
(* C15 as stated: a worker or writer that died does not block main: the    *)
(* run comes to rest with main exited, and main exits with status 0        *)
(* (nothing surfaced to the caller) unless the readiness time-out struck   *)
(* or the archive is neither zip nor tar, and in those two cases with a    *)
(* status other than 0.                                                    *)
(***************************************************************************)
Surfaced == exit_status # << >> /\ exit_status[1] # 0

C15_OnlyStartupErrorsSurface ==
  /\ Accepted /\ ~ENABLED Next => exit_status # << >>
  /\ exit_status # << >> =>
       (Surfaced <=> (coord.pc = "aborted" \/ archive.kind = "bad"))

(***************************************************************************)
(* C16 as stated: when the remote run is done, every eligible member has   *)
(* been uploaded exactly once, under the key that is the configured prefix *)
(* followed by the member's path in the archive, or the path alone when no *)
(* prefix is configured.                                                   *)
(***************************************************************************)
ExpectedKey(i) ==
  (IF args.prefix = NoOutput THEN "" ELSE args.prefix) \o archive.members[i].name

C16_UploadedOnceUnderPrefixAndPath ==
  /\ ~Local =>
       \A k \in 1..Len(swift) : swift[k].key = ExpectedKey(swift[k].item)
  /\ ~Local /\ coord.pc = "done" /\ archive.kind # "bad" =>
       \A i \in EligibleUpTo(Len(archive.members)) :
         Cardinality({k \in 1..Len(swift) : swift[k].item = i}) = 1

(***************************************************************************)
(* C17.  The phase of main changes only along Idle -> Indexing ->          *)
(* Draining -> Finalizing -> Done, never backwards; Aborted is entered     *)
(* from Idle only, with nothing spawned; the remote variant goes from      *)
(* Draining to Done and never to Finalizing, the local variant never from  *)
(* Draining to Done; and Done is entered only with every worker ended and, *)
(* in the local variant, the writer ended.                                 *)
(***************************************************************************)
\* The phase main is in.  Idle lasts until indexer.start(); a main that the
\* AttributeError of line 221 ended is in the phase it ended in.
PhaseOf(pc) ==
  CASE pc \in {"poll", "sleep", "start_indexer"} -> "Idle"
    [] pc = "aborted" -> "Aborted"
    [] pc \in {"setup_output", "start_writer", "start_jobs", "join_indexer", "crashed"} -> "Indexing"
    [] pc \in {"put_eop", "join_jobs"} -> "Draining"
    [] pc \in {"put_writer_eop", "join_writer"} -> "Finalizing"
    [] pc = "done" -> "Done"

C17_PhaseStep ==
  LET from == PhaseOf(coord.pc)
      to == PhaseOf(coord'.pc)
  IN  /\ \/ to = from
         \/ from = "Idle" /\ to = "Indexing" /\ indexer'.pc # "new"
         \/ from = "Idle" /\ to = "Aborted" /\ NothingSpawned'
         \/ from = "Indexing" /\ to = "Draining" /\ indexer.pc \in {"done", "failed"}
         \/ from = "Draining" /\ to = "Finalizing" /\ Local
         \/ from = "Draining" /\ to = "Done" /\ ~Local
         \/ from = "Finalizing" /\ to = "Done"
      /\ to = "Done" /\ from # "Done"
           => /\ \A w \in Started : jobs'[w].pc \in {"exited", "died"}
              /\ Local => writer' = "exited"

C17_PhasesInOrder == [][C17_PhaseStep]_vars

\* A local run that was Idle for two tests of the archive path is Done.
C17_Witness == Local /\ coord.pc = "done" /\ checks = 2

(***************************************************************************)
(* C18.  Classification is idempotent on a Decoder instance: a decode call *)
(* on an instance that has a classification leaves classification and      *)
(* dialect as they are, whatever the blob; and decode called again with    *)
(* the blob of the call before ends with the same classification and       *)
(* dialect, and raises if and only if the call before did.                 *)
(***************************************************************************)
C18_ClassificationIdempotent ==
  /\ \A i \in 1..Len(dec_calls) :
       dec_calls[i].before.data_type # "None" => dec_calls[i].after = dec_calls[i].before
  /\ \A i \in 1..Len(dec_calls) - 1 :
       dec_calls[i + 1].lines = dec_calls[i].lines
         => /\ dec_calls[i + 1].after = dec_calls[i].after
            /\ dec_calls[i + 1].ok = dec_calls[i].ok
  /\ dec_calls # << >> => dec = dec_calls[Len(dec_calls)].after

\* An instance that classified csv was then given a blob that a new Decoder
\* classifies json, and the same csv blob again.
C18_Witness ==
  /\ Len(dec_calls) = 3
  /\ dec_calls[1].after.data_type = "csv"
  /\ DetectDataType(dec_calls[2].lines).data_type = "json"
  /\ dec_calls[3].lines = dec_calls[1].lines
  /\ dec.data_type = "csv"

(***************************************************************************)
(* C19.  sql_next_id returns 1 on a table without rows and otherwise the   *)
(* greatest id of the table plus 1; what it returns, and what it would     *)
(* return now, is not an id of a row of the table, after any saves and     *)
(* removes.                                                                *)
(***************************************************************************)
C19_NextIdIsFresh ==
  /\ SqlNextId(IdColumn(store)) \notin IdColumn(store)
  /\ sql_last.called =>
       /\ sql_last.id \notin sql_last.table
       /\ sql_last.table = {} => sql_last.id = 1
       /\ sql_last.table # {} =>
            /\ \E m \in sql_last.table : sql_last.id = m + 1
            /\ \A x \in sql_last.table : x < sql_last.id

\* sql_next_id was called on the table of the rows 1 and 3 (2 was removed)
\* and gave 4.
C19_Witness ==
  /\ sql_last.called
  /\ sql_last.table = {1, 3}
  /\ sql_last.id = 4

(***************************************************************************)
(* C20 as stated: a decode call that decodes as json and returns gives,    *)
(* when the whole blob parses as an array, exactly the elements of that    *)
(* array, each once and in order, and only when the whole blob does not    *)
(* parse the elements of the lines that parse, in order.                   *)
(***************************************************************************)
C20_JsonArrayElementsOnce ==
  \A i \in 1..Len(dec_calls) :
    dec_calls[i].after.data_type = "json" /\ dec_calls[i].ok =>
      LET whole == JsonLoadsData(dec_calls[i].lines)
      IN  dec_calls[i].rows =
            IF whole.ok THEN PyIter(whole.val).items
            ELSE DecodeJsonLines(SplitLines(dec_calls[i].lines)).rows

\* the data as decode was given it, line by line
AsGiven(lines) == [i \in 1..Len(lines) |-> PyStr(lines[i])]

(***************************************************************************)
(* C21 as stated: a decode call that ends with the classification text      *)
(* returns the blob as it was given, one line per line of input.            *)
(***************************************************************************)
C21_TextPassesThrough ==
  \A i \in 1..Len(dec_calls) :
    dec_calls[i].ok /\ dec_calls[i].after.data_type = "text"
      => dec_calls[i].rows = AsGiven(dec_calls[i].lines)

(***************************************************************************)
(* C22 as stated: no decode call raises, whatever the blob and whatever     *)
(* classification the instance has cached.                                  *)
(***************************************************************************)
C22_DecodeNeverRaises ==
  \A i \in 1..Len(dec_calls) : dec_calls[i].ok

\* the lines after the first that are not comments
NonComments(lines) == SelectSeq(Tail(lines), LAMBDA l : ~StartsWithHash(l))
\* a line sniffs to the delimiter and quote character of the dialect
Agrees(line, dialect) ==
  /\ Sniff(line).delimiter = dialect.delimiter
  /\ Sniff(line).quotechar = dialect.quotechar
\* the number of lines compared with line 1 in a blob without comments
Compared(lines) == (IF Len(lines) <= SampleLines THEN Len(lines) ELSE SampleLines) - 1

(***************************************************************************)
(* C23 as stated: comments do not change how many lines are compared with   *)
(* line 1.  A detection that returns csv or text returns csv exactly when   *)
(* the blob has as many lines that are not comments, after line 1, as are   *)
(* compared in a blob without comments, and the first that many of them     *)
(* agree with line 1 on delimiter and quote character.                      *)
(***************************************************************************)
C23_CommentsExtendTheWindow ==
  \A i \in 1..Len(dec_calls) :
    LET c == dec_calls[i]
        nc == NonComments(c.lines)
        k == Compared(c.lines)
    IN  c.before.data_type = "None" /\ c.ok /\ c.after.data_type \in {"csv", "text"}
          => (c.after.data_type = "csv"
                <=> Len(nc) >= k /\ \A j \in 1..k : Agrees(nc[j], c.after.dialect))

\* the lines of the sample after the first: at most the first SampleLines
Sampled(lines) == SubSeq(lines, 2, Compared(lines) + 1)

(***************************************************************************)
(* C24 as stated: a decode call on a new instance ends                      *)
(* with json, and without a dialect, when the whole blob or its first line  *)
(* parses as JSON; otherwise with csv when every sampled line agrees with   *)
(* line 1 on delimiter and quote character, and with text in every other    *)
(* case.                                                                    *)
(***************************************************************************)
C24_ClassificationOrder ==
  \A i \in 1..Len(dec_calls) :
    LET c == dec_calls[i]
        s == Sampled(c.lines)
    IN  c.before = NewDecoder =>
          IF JsonLoadsData(c.lines).ok \/ JsonLoads(c.lines[1]).ok
          THEN c.after.data_type = "json" /\ c.after.dialect = NoDialect
          ELSE IF \A j \in 1..Len(s) : Agrees(s[j], Sniff(c.lines[1]))
               THEN c.after.data_type = "csv"
               ELSE c.after.data_type = "text"

\* the texts worker w put on the output queue for the work item of number id
PutFor(w, id) ==
  LET ms == SelectSeq(wq_put, LAMBDA msg : msg.who = w /\ msg.item = id)
  IN  [k \in 1..Len(ms) |-> ms[k].m]
\* worker w is through with the k-th item it took, no exception raised
Through(w, k) == k < Len(taken[w]) \/ jobs[w].pc = "get"
\* one message per decoded unit of the member behind item: a row's fields
\* joined by ';', an object serialized, or the text as it is in the member
OnePerUnit(item) ==
  LET m == ReadMember(archive, item)
      rows == ExtractFile(m.blob).rows
  IN  IF args.output_format = "csv" THEN [k \in 1..Len(rows) |-> JoinRow(rows[k]).m]
      ELSE IF args.output_format = "json" THEN [k \in 1..Len(rows) |-> JsonDumps(rows[k])]
      ELSE <<JoinStrings(m.blob.lines, "\n")>>

(***************************************************************************)
(* C25 as stated: for a member a local worker is through with, the messages *)
(* that worker put for it are one per decoded unit, in the output format,   *)
(* and nothing else.                                                        *)
(***************************************************************************)
C25_OneMessagePerUnit ==
  Local =>
    \A w \in Started : \A k \in 1..Len(taken[w]) :
      IsMember(taken[w][k]) /\ ~IsEOP(taken[w][k]) /\ Through(w, k)
        => PutFor(w, taken[w][k].id) = OnePerUnit(taken[w][k])

\* what the writer has taken from the output queue, in the order it took it
Dequeued == SubSeq(wq_put, 1, Len(wq_put) - Len(writer_queue))
\* the messages of seq that worker w put
PutBy(seq, w) == SelectSeq(seq, LAMBDA msg : msg.who = w)
\* seq1 is the beginning of seq2
IsPrefix(seq1, seq2) == Len(seq1) <= Len(seq2) /\ seq1 = SubSeq(seq2, 1, Len(seq1))

(***************************************************************************)
(* C26.  The writer never reorders: the lines of the output file are the    *)
(* messages taken from the output queue, in the order they were taken (the  *)
(* sentinel that stops the writer is not written); so the lines of one      *)
(* worker are in the file in the order that worker put them.                *)
(***************************************************************************)
C26_SinkNeverReorders ==
  Local =>
    /\ output_file.written = IF writer = "exited" THEN SubSeq(Dequeued, 1, Len(Dequeued) - 1)
                             ELSE Dequeued
    /\ \A w \in Started : IsPrefix(PutBy(output_file.written, w), PutBy(wq_put, w))

\* Two workers' lines are interleaved in the file of a finished run: a line
\* of the other worker stands between the two rows of one member.
C26_Witness ==
  /\ Local /\ coord.pc = "done"
  /\ \E i, j, k \in 1..Len(output_file.written) :
       /\ i < j /\ j < k
       /\ output_file.written[i].who = output_file.written[k].who
       /\ output_file.written[i].item = output_file.written[k].item
       /\ output_file.written[j].who # output_file.written[i].who

(***************************************************************************)
(* C27.  The writer's flush policy.  Without compression every line is      *)
(* flushed before the writer takes the next message: whenever the writer    *)
(* waits on the queue, and when it has ended, all it has written is         *)
(* flushed.  With compression nothing is flushed before the stream is       *)
(* closed after the sentinel, and all of it then.                           *)
(***************************************************************************)
C27_FlushPolicy ==
  Local /\ output_file.exists =>
    IF args.no_compression
    THEN writer \in {"get", "exited"} => output_file.flushed = Len(output_file.written)
    ELSE output_file.flushed = IF writer = "exited" THEN Len(output_file.written) ELSE 0

\* The writer waits on the queue with two lines written, both flushed, on
\* the path without compression.
C27_Witness ==
  /\ Local /\ args.no_compression
  /\ writer = "get" /\ writer_queue = << >>
  /\ Len(output_file.written) = 2 /\ output_file.flushed = 2

\* the k-th item worker w took is a tar entry whose handle reports closed
ClosedHandle(w, k) ==
  /\ IsMember(taken[w][k])
  /\ archive.kind = "tar"
  /\ ReadMember(archive, taken[w][k]).closed

(***************************************************************************)
(* C28 as stated: a member whose handle reports closed is skipped: the      *)
(* worker that took it puts no message for it (local), no put_object is     *)
(* made for it (remote), and the worker does not end on it.                 *)
(***************************************************************************)
C28_ClosedHandleIsSkipped ==
  \A w \in Started : \A k \in 1..Len(taken[w]) :
    ClosedHandle(w, k) =>
      /\ PutFor(w, taken[w][k].id) = << >>
      /\ \A n \in 1..Len(swift) : swift[n].item # taken[w][k].id
      /\ Local /\ k = Len(taken[w]) => jobs[w].pc = "get"

(***************************************************************************)
(* C29 as stated, for -o/--output: a local run that was given an output     *)
(* directory computes its output file's name and goes on as any other; it   *)
(* does not end in an exception, and when main has exited with the archive  *)
(* accepted the output file has been created.                               *)
(***************************************************************************)
C29_OutputDirectoryIsUsed ==
  Local /\ args.output # NoOutput =>
    /\ coord.pc # "crashed"
    /\ Accepted /\ exit_status # << >> => exit_status = <<0>> /\ output_file.exists

(***************************************************************************)
(* C30 as stated: what the pipeline loaded for each of the four keys is     *)
(* what the front-end wrote for it, no key more and no key less, and every  *)
(* worker that opened its connection opened it with those four values.      *)
(***************************************************************************)
C30_CredentialsRoundTrip ==
  os_vars.loaded =>
    /\ DOMAIN os_vars.vars = CredKeys
    /\ \A k \in CredKeys : os_vars.vars[k] = os_environ[k]
    /\ \A w \in Started :
         conn[w] # NoConnection
           => conn[w] = [state |-> "open", authurl |-> os_environ[KeyAuth],
                         user |-> os_environ[KeyUser], key |-> os_environ[KeySess],
                         tenant_name |-> os_environ[KeyProj]]

(***************************************************************************)
(* C31 as stated: a worker leaves its loop only on a sentinel main put: the *)
(* last item a worker that has left its loop took is a sentinel, and a      *)
(* worker does not leave its loop on an item the indexer put, whatever the  *)
(* member's name.                                                           *)
(***************************************************************************)
C31_OnlySentinelsStopWorkers ==
  \A w \in Started :
    /\ jobs[w].pc = "exited" => IsSentinel(taken[w][Len(taken[w])])
    /\ \A k \in 1..Len(taken[w]) :
         IsMember(taken[w][k]) /\ k = Len(taken[w]) => jobs[w].pc # "exited"

(***************************************************************************)
(* C32 as stated: the writer leaves its loop only on the sentinel main put: *)
(* when the writer has ended, the last message it took is main's, and every *)
(* worker has ended.                                                        *)
(***************************************************************************)
C32_OnlyMainStopsTheWriter ==
  writer = "exited" =>
    /\ Dequeued # << >> /\ FromMain(Dequeued[Len(Dequeued)])
    /\ \A w \in Started : jobs[w].pc \in {"exited", "died"}

(***************************************************************************)
(* C33 as stated: when main is at Done and some worker has taken a          *)
(* sentinel, no member is left in the work queue, the sentinels left in it  *)
(* are as many as the workers that ended without taking one, and there is   *)
(* none left when no worker was ended by an exception.                      *)
(***************************************************************************)
C33_WorkQueueAtDone ==
  coord.pc = "done" /\ (\E w \in Started : TookSentinel(w)) =>
    /\ Members(file_queue) = {}
    /\ Cardinality(Sentinels(file_queue)) = Cardinality({w \in Started : ~TookSentinel(w)})
    /\ (\A w \in Started : jobs[w].pc # "died") => Sentinels(file_queue) = {}


(***************************************************************************)
(* C34: the arithmetic of the readiness poll.  Every test of the archive   *)
(* path that finds the archive is accepted and the run proceeds; a test    *)
(* that does not find it is followed by a one-second sleep unless it was   *)
(* the last one allowed, and the last one allowed is test number T for a   *)
(* configured timeout T >= 1 and the first test for T <= 1.  So a run      *)
(* whose archive never appears ends with status -2 after exactly T tests   *)
(* and T-1 sleeps (one test and no sleep for T <= 1), each sleep lying     *)
(* between two tests.                                                      *)
(***************************************************************************)
ChecksAllowed == IF args.time_out >= 1 THEN args.time_out ELSE 1

C34_PollStep ==
  /\ checks' # checks =>
       /\ coord.pc = "poll" /\ checks' = checks + 1 /\ sleeps = checks
       /\ checks' <= ChecksAllowed
       /\ archive_exists => coord'.pc = "start_indexer" /\ exit_status' = exit_status
       /\ ~archive_exists =>
            coord'.pc = IF checks' = ChecksAllowed THEN "aborted" ELSE "sleep"
  /\ sleeps' # sleeps =>
       /\ coord.pc = "sleep" /\ coord'.pc = "poll"
       /\ sleeps' = sleeps + 1 /\ sleeps' = checks
  /\ coord'.pc = "aborted" =>
       /\ exit_status' = <<-2>>
       /\ checks' = ChecksAllowed
       /\ sleeps' = ChecksAllowed - 1
  /\ args.time_out <= 1 => sleeps' = 0

C35_StoreStep ==
  /\ \A id \in Ids : Len(store'.rows[id]) <= 1
  /\ sql_last'.op \in {"save", "replace"} =>
       /\ sql_last'.raised = ""
       /\ store' = [store EXCEPT !.rows[sql_last'.id] = <<sql_last'.data>>]
       /\ sql_last'.op = "save" => sql_last'.ret = <<sql_last'.id>>
  /\ sql_last'.op = "remove" =>
       store' = [store EXCEPT !.rows[sql_last'.id] = << >>]
  /\ sql_last'.op = "load" =>
       /\ store' = store
       /\ sql_last'.raised = "LoadError" <=> store.rows[sql_last'.id] = << >>
       /\ sql_last'.raised = "" => sql_last'.obj = store.rows[sql_last'.id]
       /\ sql_last.op = "remove" /\ sql_last.id = sql_last'.id
            => sql_last'.raised = "LoadError"

C35_OneRowPerId == [][C35_StoreStep]_vars

\* An object that came with the persistent_id 2 was saved over the row of
\* that id, in a table without a primary key, beside the row of another id.
C35_Witness ==
  /\ ~store.primary_key
  /\ sql_last.op = "save" /\ ~sql_last.called
  /\ sql_last.id = 2 /\ 2 \in sql_last.table /\ sql_last.data = "b"
  /\ sql_last.ret = <<2>>
  /\ store.rows[2] = <<"b">> /\ store.rows[1] = <<"a">>

=============================================================================
